---- MODULE Spec2Model ----
(***************************************************************************)
(* Saved-search filter engine and notification scheduler of the            *)
(* housing-trends API (NestJS + Prisma + Bull).                            *)
(*                                                                         *)
(* Time is counted in whole days.  Day 0 is Monday 30 September 2024, so   *)
(* day 1 is Tuesday 1 October 2024 and day 7 is Monday 7 October 2024.     *)
(* An optional value (a nullable column, an optional DTO field, a row that *)
(* may be missing) is a sequence of length at most one: <<>> is            *)
(* null/undefined, <<v>> is the value v.                                   *)
(***************************************************************************)
EXTENDS Integers, Sequences, FiniteSets, TLC

VARIABLES
    now,            \* the wall clock read by `new Date()`
    savedSearch,    \* table SavedSearch: id -> optional row
    nextSearchId,   \* number of rows ever inserted into SavedSearch
    notification,   \* table Notification: sequence of rows, id = index
    queue,          \* Bull queue 'notifications': ids with a send-notification job
    worker,         \* the queue workers running a job handler, one per API task
    searchHistory,  \* table SearchHistory: number of rows written
    req,            \* the HTTP request being served by SearchService
    store           \* tables HousingData, RentData and MarketTrend

vars == <<now, savedSearch, nextSearchId, notification, queue, worker,
          searchHistory, req, store>>

\* ------------------------------------------------------------------ bounds
MaxDay == 2
MaxSearches == 2
MaxNotifications == 2
MaxHistory == 1
MaxHousing == 2
MaxRent == 4
MaxTrends == 2
MaxSeries == 2

\* ------------------------------------------------------- program constants
DailyWindow == 1
WeeklyWindow == 7
MonthlyWindow == 30
Monday == 1
FirstOfMonth == 1
DefaultLimit == 20
DefaultOffset == 0

Null == <<>>
Some(v) == <<v>>
IsNull(o) == o = <<>>
Val(o) == o[1]

Users == {"u1", "u2"}
Workers == {1, 2}
SearchIds == 1..MaxSearches
NotificationFrequency == {"DAILY", "WEEKLY", "MONTHLY"}

\* ---------------------------------------------------------------- calendar
\* Date.prototype.getDay(): 0 = Sunday .. 6 = Saturday; day 0 is a Monday.
getDay(d) == (d + 1) % 7

\* Date.prototype.getDate(): day of the month, 1..31, for days -29..31
\* (1 September 2024 .. 31 October 2024).
getDate(d) ==
    IF d < 1 THEN 30 + d
    ELSE d

\* ------------------------------------------------------------ due policy
getLastNotificationThreshold(frequency, t) ==
    CASE frequency = "DAILY" -> t - DailyWindow
      [] frequency = "WEEKLY" -> t - WeeklyWindow
      [] frequency = "MONTHLY" -> t - MonthlyWindow
      [] OTHER -> t

\* The where clause of processNotificationsByFrequency's findMany.
DueWhere(row, frequency, t) ==
    /\ row.emailNotifications
    /\ row.notificationFrequency = frequency
    /\ IF IsNull(row.lastNotifiedAt) THEN TRUE
       ELSE Val(row.lastNotifiedAt) < getLastNotificationThreshold(frequency, t)

\* The ids the findMany of one frequency returns at time t.
DueIds(frequency, t) ==
    {s \in SearchIds : /\ ~IsNull(savedSearch[s])
                       /\ DueWhere(Val(savedSearch[s]), frequency, t)}

\* The rows handed to the for loop: the store returns them in any order.
RECURSIVE Orders(_)
Orders(S) ==
    IF S = {} THEN {<<>>}
    ELSE UNION {{<<s>> \o rest : rest \in Orders(S \ {s})} : s \in S}

Snapshot(s) ==
    [id |-> s, userId |-> Val(savedSearch[s]).userId,
     lastNotifiedAt |-> Val(savedSearch[s]).lastNotifiedAt]

RECURSIVE Snapshots(_)
Snapshots(order) ==
    IF order = <<>> THEN <<>>
    ELSE <<Snapshot(Head(order))>> \o Snapshots(Tail(order))

\* ----------------------------------------------------------- queue workers
IdleWorker ==
    [pc |-> "idle", job |-> "none", freq |-> "none", today |-> Null,
     batch |-> <<>>, nid |-> 0]

\* The job handler returns normally: Bull marks the job completed.
Completed(w) ==
    IdleWorker

\* An exception leaves the handler: Bull marks the job failed.
Failed(w) ==
    IdleWorker

\* Mutant of AfterLoop: the WEEKLY and MONTHLY queries run on every day.
AfterLoop_Ungated(w, t) ==
    LET today == IF w.freq = "DAILY" THEN t ELSE Val(w.today) IN
    IF w.job = "send-market-updates" THEN Completed(w)
    ELSE IF w.freq = "DAILY"
         THEN [w EXCEPT !.pc = "findMany", !.freq = "WEEKLY",
                        !.today = Some(today), !.batch = <<>>, !.nid = 0]
    ELSE IF w.freq = "WEEKLY"
         THEN [w EXCEPT !.pc = "findMany", !.freq = "MONTHLY",
                        !.today = Some(today), !.batch = <<>>, !.nid = 0]
    ELSE Completed(w)

\* Mutant of AfterLoop: a tick evaluates the DAILY cadence only.
AfterLoop_DailyOnly(w, t) ==
    Completed(w)

\* processScheduledNotifications after the for loop of one frequency ended
\* at time t: DAILY is followed by WEEKLY on Mondays, then MONTHLY on the 1st.
AfterLoop(w, t) ==
    LET today == IF w.freq = "DAILY" THEN t ELSE Val(w.today) IN
    IF w.job = "send-market-updates" THEN Completed(w)
    ELSE IF w.freq = "DAILY" /\ getDay(today) = Monday
         THEN [w EXCEPT !.pc = "findMany", !.freq = "WEEKLY",
                        !.today = Some(today), !.batch = <<>>, !.nid = 0]
    ELSE IF w.freq \in {"DAILY", "WEEKLY"} /\ getDate(today) = FirstOfMonth
         THEN [w EXCEPT !.pc = "findMany", !.freq = "MONTHLY",
                        !.today = Some(today), !.batch = <<>>, !.nid = 0]
    ELSE Completed(w)

\* Mutant of NextRow: the for loop stays on the row it has just handled.
NextRow_Stay(w, t) ==
    IF Len(w.batch) > 0
    THEN [w EXCEPT !.pc = "findUnique", !.nid = 0]
    ELSE AfterLoop(w, t)

\* The for loop of processNotificationsByFrequency moves to the next row.
NextRow(w, t) ==
    IF Len(w.batch) > 1
    THEN [w EXCEPT !.pc = "findUnique", !.batch = Tail(w.batch), !.nid = 0]
    ELSE AfterLoop(w, t)

\* handleScheduledNotifications: a worker takes a
\* process-scheduled-notifications job and enters
\* processScheduledNotifications.
handleScheduledNotifications(w) ==
    /\ worker[w].pc = "idle"
    /\ worker' = [worker EXCEPT ![w] = [IdleWorker EXCEPT
                     !.pc = "findMany", !.job = "process-scheduled-notifications",
                     !.freq = "DAILY"]]
    /\ UNCHANGED <<store, now, savedSearch, nextSearchId, notification, queue,
                   searchHistory, req>>

\* processNotificationsByFrequency: the findMany of the current frequency.
processNotificationsByFrequency(w) ==
    /\ worker[w].pc = "findMany"
    /\ \E order \in Orders(DueIds(worker[w].freq, now)) :
          worker' = [worker EXCEPT ![w] =
              IF order = <<>> THEN AfterLoop(worker[w], now)
              ELSE [worker[w] EXCEPT !.pc = "findUnique",
                                     !.batch = Snapshots(order)]]
    /\ UNCHANGED <<store, now, savedSearch, nextSearchId, notification, queue,
                   searchHistory, req>>

\* handleMarketUpdates: a send-market-updates job for saved search s.
handleMarketUpdates(w, s) ==
    /\ worker[w].pc = "idle"
    /\ worker' = [worker EXCEPT ![w] =
          IF IsNull(savedSearch[s]) \/ ~Val(savedSearch[s]).emailNotifications
          THEN Completed(worker[w])
          ELSE [IdleWorker EXCEPT !.pc = "findUnique",
                                  !.job = "send-market-updates",
                                  !.batch = <<Snapshot(s)>>]]
    /\ UNCHANGED <<store, now, savedSearch, nextSearchId, notification, queue,
                   searchHistory, req>>

\* sendMarketUpdate, first await: findUnique of the saved search; a missing
\* row makes it return without a notification.
sendMarketUpdate_findUnique(w) ==
    /\ worker[w].pc = "findUnique"
    /\ worker' = [worker EXCEPT ![w] =
          IF IsNull(savedSearch[Head(worker[w].batch).id])
          THEN NextRow(worker[w], now)
          ELSE [worker[w] EXCEPT !.pc = "create"]]
    /\ UNCHANGED <<store, now, savedSearch, nextSearchId, notification, queue,
                   searchHistory, req>>

\* A new row of table Notification.  Ids are not reused: a deleted row
\* stays in the sequence with deleted set.
NewNotification(userId, s) ==
    [userId |-> userId, type |-> "MARKET_UPDATE", savedSearchId |-> s,
     read |-> FALSE, sent |-> FALSE, deleted |-> FALSE]

\* createNotification, first await: prisma.notification.create.  The store
\* either inserts the row or throws.
createNotification(w) ==
    /\ worker[w].pc = "create"
    /\ \/ /\ Len(notification) < MaxNotifications
          /\ notification' = Append(notification,
                 NewNotification(Head(worker[w].batch).userId,
                                 Head(worker[w].batch).id))
          /\ worker' = [worker EXCEPT ![w] =
                 [worker[w] EXCEPT !.pc = "queue",
                                   !.nid = Len(notification) + 1]]
       \/ /\ notification' = notification
          /\ worker' = [worker EXCEPT ![w] = Failed(worker[w])]
    /\ UNCHANGED <<store, now, savedSearch, nextSearchId, queue, searchHistory, req>>

\* Mutant of queueNotification: lastNotifiedAt is written before the
\* hand-off is known to have succeeded.
queueNotification_MarkFirst(w) ==
    /\ worker[w].pc = "queue"
    /\ savedSearch' = [savedSearch EXCEPT ![Head(worker[w].batch).id] =
           IF IsNull(@) THEN @
           ELSE Some([Val(@) EXCEPT !.lastNotifiedAt = Some(now)])]
    /\ \/ /\ queue' = queue \cup {worker[w].nid}
          /\ worker' = [worker EXCEPT ![w] = [worker[w] EXCEPT !.pc = "update"]]
       \/ /\ queue' = queue
          /\ worker' = [worker EXCEPT ![w] = IdleWorker]
    /\ UNCHANGED <<store, now, nextSearchId, notification, searchHistory, req>>

\* queueNotification: notificationQueue.add('send-notification').  The
\* queue either accepts the job or throws.
queueNotification(w) ==
    /\ worker[w].pc = "queue"
    /\ \/ /\ queue' = queue \cup {worker[w].nid}
          /\ worker' = [worker EXCEPT ![w] = [worker[w] EXCEPT !.pc = "update"]]
       \/ /\ queue' = queue
          /\ worker' = [worker EXCEPT ![w] = Failed(worker[w])]
    /\ UNCHANGED <<store, now, savedSearch, nextSearchId, notification,
                   searchHistory, req>>

\* sendMarketUpdate, last await: savedSearch.update({lastNotifiedAt: new
\* Date()}).  The update throws when the row is gone.
sendMarketUpdate_update(w) ==
    LET s == Head(worker[w].batch).id IN
    /\ worker[w].pc = "update"
    /\ IF IsNull(savedSearch[s])
       THEN /\ savedSearch' = savedSearch
            /\ worker' = [worker EXCEPT ![w] = Failed(worker[w])]
       ELSE /\ savedSearch' = [savedSearch EXCEPT ![s] =
                   Some([Val(savedSearch[s]) EXCEPT !.lastNotifiedAt = Some(now)])]
            /\ worker' = [worker EXCEPT ![w] = NextRow(worker[w], now)]
    /\ UNCHANGED <<store, now, nextSearchId, notification, queue, searchHistory, req>>

\* The clock advances by one day.
Tick ==
    /\ now < MaxDay
    /\ now' = now + 1
    /\ UNCHANGED <<store, savedSearch, nextSearchId, notification, queue, worker,
                   searchHistory, req>>


\* --------------------------------------------------------- filter documents
\* SearchFiltersDto / the JSON column SavedSearch.filters.
NoFilters ==
    [states |-> <<>>, counties |-> <<>>,
     minPrice |-> Null, maxPrice |-> Null,
     minRent |-> Null, maxRent |-> Null,
     priceChangeMin |-> Null, priceChangeMax |-> Null,
     affordabilityIndex |-> Null, dataType |-> Null,
     sortBy |-> Null, sortOrder |-> Null,
     limit |-> Null, offset |-> Null]

FPrice == [NoFilters EXCEPT !.minPrice = Some(100000), !.maxPrice = Some(500000)]
FPriceInverted == [NoFilters EXCEPT !.minPrice = Some(500000), !.maxPrice = Some(100000)]
FPriceMaxZero == [NoFilters EXCEPT !.minPrice = Some(100000), !.maxPrice = Some(0)]
FRentInverted == [NoFilters EXCEPT !.minRent = Some(3000), !.maxRent = Some(1000)]
FChangeInverted == [NoFilters EXCEPT !.priceChangeMin = Some(50), !.priceChangeMax = Some(-50)]

\* The bodies of a direct search.
FilterDocs ==
    {NoFilters, FPrice, FPriceInverted, FPriceMaxZero, FRentInverted,
     FChangeInverted}

\* The filter objects sent with a saved search.
SavedFilterDocs ==
    {FPrice, FPriceInverted, FPriceMaxZero, FRentInverted, FChangeInverted}

\* JavaScript truthiness of an optional number: undefined and 0 are falsy.
Truthy(o) == IF IsNull(o) THEN FALSE ELSE Val(o) # 0

\* validateSearchFilters: "ok", or the message of the BadRequestException.
validateSearchFilters(filters) ==
    IF IsNull(filters) THEN "Invalid search filters"
    ELSE LET f == Val(filters) IN
         IF Truthy(f.minPrice) /\ Truthy(f.maxPrice)
               /\ Val(f.minPrice) > Val(f.maxPrice)
         THEN "Minimum price cannot be greater than maximum price"
         ELSE IF Truthy(f.minRent) /\ Truthy(f.maxRent)
                    /\ Val(f.minRent) > Val(f.maxRent)
         THEN "Minimum rent cannot be greater than maximum rent"
         ELSE "ok"

\* The class-validator rules of SearchFiltersDto, applied by the global
\* ValidationPipe before SearchController.search is entered.
InRange(o, lo, hi) == IF IsNull(o) THEN TRUE ELSE Val(o) >= lo /\ Val(o) <= hi
AtLeast(o, lo) == IF IsNull(o) THEN TRUE ELSE Val(o) >= lo

SearchFiltersDto(f) ==
    /\ AtLeast(f.minPrice, 0) /\ AtLeast(f.maxPrice, 0)
    /\ AtLeast(f.minRent, 0) /\ AtLeast(f.maxRent, 0)
    /\ InRange(f.priceChangeMin, -100, 100)
    /\ InRange(f.priceChangeMax, -100, 100)
    /\ InRange(f.affordabilityIndex, 0, 100)
    /\ InRange(f.limit, 1, 100)
    /\ AtLeast(f.offset, 0)

\* ------------------------------------------------------------ SearchService
IdleReq ==
    [op |-> "none", pc |-> "idle", userId |-> Null, id |-> 0,
     filters |-> Null, emailNotifications |-> Null,
     notificationFrequency |-> Null, outcome |-> "none",
     response |-> Null]

NoRequest == req.pc \in {"idle", "done"}

\* The response: the outcome of the call, for the request it answers.
Done(r, outcome) ==
    [r EXCEPT !.pc = "done", !.outcome = outcome,
              !.emailNotifications = Null, !.notificationFrequency = Null,
              !.response = IF outcome = "ok" THEN r.response ELSE Null]

\* CreateSavedSearchDto: filters is required, the two notification fields
\* are optional.
CreateSavedSearchDto ==
    [filters : SavedFilterDocs,
     emailNotifications : {Null},
     notificationFrequency : {Null}]

OrDefault(o, d) == IF IsNull(o) THEN d ELSE Val(o)

\* prisma.savedSearch.create: the columns createSavedSearch does not pass
\* take the schema's defaults.
NewSavedSearch(userId, dto, t) ==
    [userId |-> userId, filters |-> dto.filters,
     emailNotifications |-> OrDefault(dto.emailNotifications, FALSE),
     notificationFrequency |-> OrDefault(dto.notificationFrequency, "WEEKLY"),
     lastNotifiedAt |-> Null, updatedAt |-> t]

createSavedSearch(userId, dto) ==
    LET r == [IdleReq EXCEPT !.op = "createSavedSearch",
                             !.userId = Some(userId),
                             !.filters = Some(dto.filters),
                             !.emailNotifications = dto.emailNotifications,
                             !.notificationFrequency = dto.notificationFrequency]
    IN
    /\ NoRequest
    /\ IF validateSearchFilters(Some(dto.filters)) # "ok"
       THEN /\ req' = Done(r, "BadRequest")
            /\ UNCHANGED <<savedSearch, nextSearchId>>
       ELSE /\ nextSearchId < MaxSearches
            /\ nextSearchId' = nextSearchId + 1
            /\ savedSearch' = [savedSearch EXCEPT ![nextSearchId + 1] =
                   Some(NewSavedSearch(userId, dto, now))]
            /\ req' = Done([r EXCEPT !.id = nextSearchId + 1], "ok")
    /\ UNCHANGED <<store, now, notification, queue, worker, searchHistory>>

\* Mutant of FindOwned: the lookup is by id alone.
FindOwned_ById(id, userId) == savedSearch[id]

\* getSavedSearch's findFirst({ where: { id, userId } }).
FindOwned(id, userId) ==
    IF ~IsNull(savedSearch[id]) /\ Val(savedSearch[id]).userId = userId
    THEN savedSearch[id]
    ELSE Null

getSavedSearch(id, userId) ==
    LET r == [IdleReq EXCEPT !.op = "getSavedSearch",
                             !.userId = Some(userId), !.id = id]
    IN
    /\ NoRequest
    /\ req' = IF IsNull(FindOwned(id, userId))
              THEN Done(r, "NotFound") ELSE Done(r, "ok")
    /\ UNCHANGED <<store, now, savedSearch, nextSearchId, notification, queue,
                   worker, searchHistory>>


\* UpdateSavedSearchDto: every field of CreateSavedSearchDto, optional.
NoUpdate ==
    [filters |-> Null, emailNotifications |-> Null,
     notificationFrequency |-> Null]

UpdateSavedSearchDto ==
    {[NoUpdate EXCEPT !.filters = Some(f)] : f \in SavedFilterDocs}
    \cup {[NoUpdate EXCEPT !.emailNotifications = Some(TRUE),
                           !.notificationFrequency = Some("DAILY")]}

\* prisma.savedSearch.update({ data: { ...dto, updatedAt: new Date() } }).
ApplyUpdate(row, r, t) ==
    [row EXCEPT
        !.filters = OrDefault(r.filters, @),
        !.emailNotifications = OrDefault(r.emailNotifications, @),
        !.notificationFrequency = OrDefault(r.notificationFrequency, @),
        !.updatedAt = t]

\* updateSavedSearch up to its second await: getSavedSearch, then the
\* validation of dto.filters.
updateSavedSearch(id, userId, dto) ==
    LET r == [IdleReq EXCEPT !.op = "updateSavedSearch",
                             !.userId = Some(userId), !.id = id,
                             !.filters = dto.filters,
                             !.emailNotifications = dto.emailNotifications,
                             !.notificationFrequency = dto.notificationFrequency]
    IN
    /\ NoRequest
    /\ req' = IF IsNull(FindOwned(id, userId)) THEN Done(r, "NotFound")
              ELSE IF ~IsNull(dto.filters)
                      /\ validateSearchFilters(dto.filters) # "ok"
                   THEN Done(r, "BadRequest")
              ELSE [r EXCEPT !.pc = "update"]
    /\ UNCHANGED <<store, now, savedSearch, nextSearchId, notification, queue,
                   worker, searchHistory>>

\* updateSavedSearch, second await: the update by id; it throws when the
\* row was deleted in between.
updateSavedSearch_update ==
    /\ req.pc = "update"
    /\ IF IsNull(savedSearch[req.id])
       THEN /\ req' = Done(req, "InternalError")
            /\ savedSearch' = savedSearch
       ELSE /\ req' = Done(req, "ok")
            /\ savedSearch' = [savedSearch EXCEPT ![req.id] =
                   Some(ApplyUpdate(Val(savedSearch[req.id]), req, now))]
    /\ UNCHANGED <<store, now, nextSearchId, notification, queue, worker,
                   searchHistory>>

\* deleteSavedSearch up to its second await: getSavedSearch.
deleteSavedSearch(id, userId) ==
    LET r == [IdleReq EXCEPT !.op = "deleteSavedSearch",
                             !.userId = Some(userId), !.id = id]
    IN
    /\ NoRequest
    /\ req' = IF IsNull(FindOwned(id, userId)) THEN Done(r, "NotFound")
              ELSE [r EXCEPT !.pc = "delete"]
    /\ UNCHANGED <<store, now, savedSearch, nextSearchId, notification, queue,
                   worker, searchHistory>>

\* deleteSavedSearch, second await: the delete by id.
deleteSavedSearch_delete ==
    /\ req.pc = "delete"
    /\ req' = Done(req, IF IsNull(savedSearch[req.id])
                        THEN "InternalError" ELSE "ok")
    /\ savedSearch' = [savedSearch EXCEPT ![req.id] = Null]
    /\ UNCHANGED <<store, now, nextSearchId, notification, queue, worker,
                   searchHistory>>

\* ------------------------------------------------------------ record store
\* Rows of the tables searchHousingData queries, with the columns it reads.
\* The county relation is flattened into stateCode and fipsCode.  Rows 1
\* and 2, 3 and 4, ... of HousingData and of RentData were loaded together
\* and have the same createdAt.
StateOf(i) == IF i % 2 = 1 THEN "CA" ELSE "TX"
FipsOf(i) == IF i % 2 = 1 THEN "06001" ELSE "48001"

HousingRow(i) ==
    [id |-> i, kind |-> "housing", stateCode |-> StateOf(i),
     fipsCode |-> FipsOf(i), countyId |-> FipsOf(i),
     medianHomePrice |-> 100000 * (i + 1),
     priceChangeYoY |-> IF i = 1 THEN 5 ELSE IF i = 2 THEN -3 ELSE 0,
     createdAt |-> (i + 1) \div 2]

RentValues == <<900, 1200, 1500, 2800, 3200>>

RentRow(i) ==
    [id |-> i, kind |-> "rent", stateCode |-> StateOf(i),
     fipsCode |-> FipsOf(i), countyId |-> FipsOf(i),
     medianRent |-> IF i <= Len(RentValues) THEN RentValues[i]
                    ELSE 3200 + 100 * (i - Len(RentValues)),
     createdAt |-> (i + 1) \div 2]

TrendRow(i) ==
    [id |-> i, kind |-> "trends", stateCode |-> StateOf(i),
     fipsCode |-> FipsOf(i), countyId |-> FipsOf(i),
     affordabilityIndex |-> 40 + 10 * i,
     createdAt |-> i]

\* The record store with the first h, r and t rows loaded.
Store(h, r, t) ==
    [housingData |-> {HousingRow(i) : i \in 1..h},
     rentData |-> {RentRow(i) : i \in 1..r},
     marketTrend |-> {TrendRow(i) : i \in 1..t}]

EmptyStore == Store(0, 0, 0)

Stores ==
    {Store(h, r, t) : h \in 0..MaxHousing, r \in 0..MaxRent, t \in 0..MaxTrends}

\* ------------------------------------------------------------ filter engine
Range(s) == {s[i] : i \in 1..Len(s)}

\* whereConditions: county: { stateCode: { in: states }, fipsCode: { in:
\* counties } }, each only for a non-empty array.
whereConditions(f, row) ==
    /\ IF Len(f.states) > 0 THEN row.stateCode \in Range(f.states) ELSE TRUE
    /\ IF Len(f.counties) > 0 THEN row.fipsCode \in Range(f.counties) ELSE TRUE

\* { gte: lo, lte: hi } on one column, each bound added by `if (bound)`.
Between(v, lo, hi) ==
    /\ IF Truthy(lo) THEN v >= Val(lo) ELSE TRUE
    /\ IF Truthy(hi) THEN v <= Val(hi) ELSE TRUE

housingWhere(f, row) ==
    /\ whereConditions(f, row)
    /\ Between(row.medianHomePrice, f.minPrice, f.maxPrice)
    /\ Between(row.priceChangeYoY, f.priceChangeMin, f.priceChangeMax)

rentWhere(f, row) ==
    /\ whereConditions(f, row)
    /\ Between(row.medianRent, f.minRent, f.maxRent)

trendsWhere(f, row) ==
    /\ whereConditions(f, row)
    /\ Between(row.affordabilityIndex, f.affordabilityIndex, Null)

\* buildOrderBy: the column and the direction of the orderBy.
buildOrderBy(sortBy, sortOrder) ==
    LET dir == OrDefault(sortOrder, "desc")
        key == OrDefault(sortBy, "date")
    IN CASE key = "price" -> [column |-> "medianHomePrice", dir |-> dir]
         [] key = "rent" -> [column |-> "medianRent", dir |-> dir]
         [] key = "priceChange" -> [column |-> "priceChangeYoY", dir |-> dir]
         [] key = "rentChange" -> [column |-> "rentChangeYoY", dir |-> dir]
         [] key = "date" -> [column |-> "createdAt", dir |-> dir]
         [] OTHER -> [column |-> "createdAt", dir |-> "desc"]

TrendsOrderBy == [column |-> "createdAt", dir |-> "desc"]

\* ORDER BY column dir: a precedes b, or they are equal in the column.
InOrder(a, b, orderBy) ==
    IF orderBy.dir = "asc" THEN a[orderBy.column] <= b[orderBy.column]
    ELSE a[orderBy.column] >= b[orderBy.column]

Sorted(rows, orderBy) ==
    \A i \in 1..Len(rows) - 1 : InOrder(rows[i], rows[i + 1], orderBy)

\* take and skip of findMany.
Page(rows, take, skip) ==
    SubSeq(rows, skip + 1, IF skip + take < Len(rows) THEN skip + take
                           ELSE Len(rows))

\* prisma.<table>.findMany({ where, orderBy, take, skip }): the sequences
\* the database may return.  ORDER BY on one column leaves the order of
\* rows that are equal in it to the database.
findMany(rows, orderBy, take, skip) ==
    {Page(o, take, skip) : o \in {p \in Orders(rows) : Sorted(p, orderBy)}}

RECURSIVE Sum(_)
Sum(values) == IF values = <<>> THEN 0 ELSE Head(values) + Sum(Tail(values))

\* Array.prototype.map(column).filter(Boolean): the truthy values, in order.
RECURSIVE Column(_, _)
Column(rows, column) ==
    IF rows = <<>> THEN <<>>
    ELSE (IF Head(rows)[column] # 0 THEN <<Head(rows)[column]>> ELSE <<>>)
            \o Column(Tail(rows), column)

\* Mutant of Avg: the quotient is taken without the length test, 0 / 0 for
\* an empty array.
Avg_Unguarded(values) == <<Sum(values), Len(values)>>

\* A quotient sum / n kept exact, as the pair <<sum, n>>; 0 is <<0, 1>>.
Avg(values) ==
    IF Len(values) > 0 THEN <<Sum(values), Len(values)>> ELSE <<0, 1>>

Minimum(values) ==
    IF Len(values) > 0
    THEN CHOOSE v \in Range(values) : \A u \in Range(values) : v <= u
    ELSE 0

Maximum(values) ==
    IF Len(values) > 0
    THEN CHOOSE v \in Range(values) : \A u \in Range(values) : v >= u
    ELSE 0

\* calculateAggregates(results): computed from the rows in results.
calculateAggregates(results) ==
    LET housingPrices == Column(results.housing, "medianHomePrice")
        rentPrices == Column(results.rent, "medianRent")
    IN [avgHomePrice |-> Avg(housingPrices),
        avgRent |-> Avg(rentPrices),
        minHomePrice |-> Minimum(housingPrices),
        maxHomePrice |-> Maximum(housingPrices),
        minRent |-> Minimum(rentPrices),
        maxRent |-> Maximum(rentPrices),
        totalCounties |-> Cardinality(results.counties)]

Wants(f, kind) == IF IsNull(f.dataType) THEN TRUE ELSE Val(f.dataType) = kind

\* countResults(whereConditions, dataType).
countResults(st, f) ==
    (IF Wants(f, "housing")
     THEN Cardinality({r \in st.housingData : whereConditions(f, r)}) ELSE 0)
    + (IF Wants(f, "rent")
       THEN Cardinality({r \in st.rentData : whereConditions(f, r)}) ELSE 0)
    + (IF Wants(f, "trends")
       THEN Cardinality({r \in st.marketTrend : whereConditions(f, r)}) ELSE 0)

\* The county ids of the rows of the three result sequences.
CountyIds(housing, rent, trends) ==
    {r.countyId : r \in Range(housing) \cup Range(rent) \cup Range(trends)}

\* Mutant of SearchResult: the rent rows are returned in the housing array.
SearchResult_Merged(st, f, housing, rent, trends) ==
    LET results == [housing |-> housing, rent |-> rent, trends |-> trends,
                    counties |-> CountyIds(housing, rent, trends)]
    IN [data |-> [results EXCEPT !.housing = housing \o rent, !.rent = <<>>],
        aggregates |-> calculateAggregates(results),
        pagination |-> [limit |-> OrDefault(f.limit, DefaultLimit),
                        offset |-> OrDefault(f.offset, DefaultOffset),
                        total |-> countResults(st, f)]]

\* What searchHousingData returns for one outcome of its three findMany.
SearchResult(st, f, housing, rent, trends) ==
    LET results == [housing |-> housing, rent |-> rent, trends |-> trends,
                    counties |-> CountyIds(housing, rent, trends)]
    IN [data |-> results,
        aggregates |-> calculateAggregates(results),
        pagination |-> [limit |-> OrDefault(f.limit, DefaultLimit),
                        offset |-> OrDefault(f.offset, DefaultOffset),
                        total |-> countResults(st, f)]]

\* searchHousingData from the where clauses to the return, against the
\* store st: every result the three findMany calls can give.
SearchResults(st, f) ==
    LET take == OrDefault(f.limit, DefaultLimit)
        skip == OrDefault(f.offset, DefaultOffset)
        orderBy == buildOrderBy(f.sortBy, f.sortOrder)
        housing == IF Wants(f, "housing")
                   THEN findMany({r \in st.housingData : housingWhere(f, r)},
                                 orderBy, take, skip)
                   ELSE {<<>>}
        rent == IF Wants(f, "rent")
                THEN findMany({r \in st.rentData : rentWhere(f, r)},
                              orderBy, take, skip)
                ELSE {<<>>}
        trends == IF Wants(f, "trends")
                  THEN findMany({r \in st.marketTrend : trendsWhere(f, r)},
                                TrendsOrderBy, take, skip)
                  ELSE {<<>>}
    IN {SearchResult(st, f, h, r, t) : h \in housing, r \in rent, t \in trends}

\* Filter documents sent to the filter engine.  A sort by price is sent
\* with dataType housing and a sort by rent with dataType rent; createdAt
\* is a column of all three tables.
FRentPage ==
    [NoFilters EXCEPT !.minRent = Some(1000), !.maxRent = Some(3000),
                      !.dataType = Some("rent"), !.sortBy = Some("rent"),
                      !.sortOrder = Some("asc"), !.limit = Some(2)]
FHousingByPrice ==
    [NoFilters EXCEPT !.dataType = Some("housing"), !.sortBy = Some("price"),
                      !.sortOrder = Some("asc")]
FTrends == [NoFilters EXCEPT !.dataType = Some("trends")]
FPageOne == [NoFilters EXCEPT !.limit = Some(1)]
FDateAsc == [NoFilters EXCEPT !.sortBy = Some("date"), !.sortOrder = Some("asc")]
FMaxPriceZero == [NoFilters EXCEPT !.maxPrice = Some(0)]
FStatesLower == [NoFilters EXCEPT !.states = <<"ca">>]
FStatesMixed == [NoFilters EXCEPT !.states = <<"ca", "CA">>]
FStatesUpper == [NoFilters EXCEPT !.states = <<"CA">>]
FStatesNoMatch == [NoFilters EXCEPT !.states = <<"ZZ">>]
FLimitTooLarge == [NoFilters EXCEPT !.limit = Some(101)]

\* The bodies of a direct search against a loaded record store.
EngineDocs ==
    {NoFilters, FRentPage, FHousingByPrice, FTrends, FPageOne, FDateAsc,
     FMaxPriceZero, FStatesLower, FStatesMixed, FStatesUpper, FStatesNoMatch,
     FLimitTooLarge}

\* The saved searches created against a loaded record store.
EngineSavedDtos ==
    [filters : {FLimitTooLarge},
     emailNotifications : {Null},
     notificationFrequency : {Null}]

\* SearchController.search -> searchHousingData: a direct search; the
\* caller may be anonymous.  The body passed the ValidationPipe.
searchHousingData(filters, userId) ==
    /\ NoRequest
    /\ SearchFiltersDto(filters)
    /\ searchHistory < MaxHistory
    /\ req' = [IdleReq EXCEPT !.op = "searchHousingData", !.pc = "history",
                              !.userId = userId, !.filters = Some(filters)]
    /\ UNCHANGED <<store, now, savedSearch, nextSearchId, notification, queue,
                   worker, searchHistory>>

\* executeSavedSearch up to the first await of searchHousingData:
\* getSavedSearch, then the stored filters are passed on as they are.
executeSavedSearch(id, userId) ==
    LET r == [IdleReq EXCEPT !.op = "executeSavedSearch",
                             !.userId = Some(userId), !.id = id]
    IN
    /\ NoRequest
    /\ searchHistory < MaxHistory
    /\ req' = IF IsNull(FindOwned(id, userId)) THEN Done(r, "NotFound")
              ELSE [r EXCEPT !.pc = "history",
                             !.filters = Some(Val(FindOwned(id, userId)).filters)]
    /\ UNCHANGED <<store, now, savedSearch, nextSearchId, notification, queue,
                   worker, searchHistory>>

\* Mutant of saveSearchHistory: no try/catch, a failure of the insert
\* fails the search.
saveSearchHistory_Rethrow ==
    /\ req.pc = "history"
    /\ \/ /\ searchHistory' = searchHistory + 1
          /\ req' = [req EXCEPT !.pc = "query"]
       \/ /\ searchHistory' = searchHistory
          /\ req' = Done(req, "InternalServerError")
    /\ UNCHANGED <<store, now, savedSearch, nextSearchId, notification, queue, worker>>

\* saveSearchHistory: prisma.searchHistory.create inside try/catch; a
\* failure of the insert is logged and the search goes on.
saveSearchHistory ==
    /\ req.pc = "history"
    /\ \/ searchHistory' = searchHistory + 1
       \/ searchHistory' = searchHistory
    /\ req' = [req EXCEPT !.pc = "query"]
    /\ UNCHANGED <<store, now, savedSearch, nextSearchId, notification, queue, worker>>

\* searchHousingData from the where clauses to the return: the findMany
\* and count queries against the record store.
searchHousingData_query ==
    /\ req.pc = "query"
    /\ \E result \in SearchResults(store, Val(req.filters)) :
          req' = IF req.op = "executeSavedSearch"
                 THEN [req EXCEPT !.pc = "touch", !.response = Some(result)]
                 ELSE Done([req EXCEPT !.response = Some(result)], "ok")
    /\ UNCHANGED <<store, now, savedSearch, nextSearchId, notification, queue,
                   worker, searchHistory>>

\* Mutant of executeSavedSearch_update: the update has no where clause on
\* the id and sets updatedAt of every saved search.
executeSavedSearch_update_All ==
    /\ req.pc = "touch"
    /\ IF IsNull(savedSearch[req.id])
       THEN /\ req' = Done(req, "InternalError")
            /\ savedSearch' = savedSearch
       ELSE /\ req' = Done(req, "ok")
            /\ savedSearch' = [s \in SearchIds |->
                   IF IsNull(savedSearch[s]) THEN Null
                   ELSE Some([Val(savedSearch[s]) EXCEPT !.updatedAt = now])]
    /\ UNCHANGED <<store, now, nextSearchId, notification, queue, worker,
                   searchHistory>>

\* Mutant of executeSavedSearch_update: the execution is recorded in
\* lastNotifiedAt instead of updatedAt.
executeSavedSearch_update_LastNotified ==
    /\ req.pc = "touch"
    /\ IF IsNull(savedSearch[req.id])
       THEN /\ req' = Done(req, "InternalError")
            /\ savedSearch' = savedSearch
       ELSE /\ req' = Done(req, "ok")
            /\ savedSearch' = [savedSearch EXCEPT ![req.id] =
                   Some([Val(savedSearch[req.id]) EXCEPT
                            !.lastNotifiedAt = Some(now)])]
    /\ UNCHANGED <<store, now, nextSearchId, notification, queue, worker,
                   searchHistory>>

\* executeSavedSearch, last await: update({ data: { updatedAt: new Date() } }).
executeSavedSearch_update ==
    /\ req.pc = "touch"
    /\ IF IsNull(savedSearch[req.id])
       THEN /\ req' = Done(req, "InternalError")
            /\ savedSearch' = savedSearch
       ELSE /\ req' = Done(req, "ok")
            /\ savedSearch' = [savedSearch EXCEPT ![req.id] =
                   Some([Val(savedSearch[req.id]) EXCEPT !.updatedAt = now])]
    /\ UNCHANGED <<store, now, nextSearchId, notification, queue, worker,
                   searchHistory>>

\* ------------------------------------------------------------ initial state
\* Rows already in the SavedSearch table when the API starts.
StoredSearch(userId, frequency, last) ==
    [userId |-> userId, filters |-> FPrice, emailNotifications |-> TRUE,
     notificationFrequency |-> frequency, lastNotifiedAt |-> last,
     updatedAt |-> -60]

\* A daily search that never fired; weekly searches fired on Tuesday 24,
\* Monday 23 and Monday 16 September; monthly searches fired on 1 September
\* and 1 August.
StoredSearches(userId) ==
    {StoredSearch(userId, "DAILY", Null),
     StoredSearch(userId, "WEEKLY", Some(-6)),
     StoredSearch(userId, "WEEKLY", Some(-7)),
     StoredSearch(userId, "WEEKLY", Some(-14)),
     StoredSearch(userId, "MONTHLY", Some(-29)),
     StoredSearch(userId, "MONTHLY", Some(-60))}

\* The tables when the API starts: the saved search of u1 is any of the
\* stored rows; u2 has a daily search that never fired.
Init ==
    /\ now = 0
    /\ \E r1 \in StoredSearches("u1") :
          savedSearch = [s \in SearchIds |->
                            IF s = 1 THEN Some(r1)
                            ELSE IF s = 2
                                 THEN Some(StoredSearch("u2", "DAILY", Null))
                                 ELSE Null]
    /\ nextSearchId = 2
    /\ notification = <<>>
    /\ queue = {}
    /\ worker = [w \in Workers |-> IdleWorker]
    /\ searchHistory = 0
    /\ req = IdleReq
    /\ store = EmptyStore

\* One queue worker running scheduler ticks.
Scheduler(w) ==
    \/ handleScheduledNotifications(w)
    \/ processNotificationsByFrequency(w)
    \/ sendMarketUpdate_findUnique(w)
    \/ createNotification(w)
    \/ queueNotification(w)
    \/ sendMarketUpdate_update(w)

\* The owners' requests that race with the scheduler: switching the
\* notifications of a saved search off and deleting it.
SwitchOff == [NoUpdate EXCEPT !.emailNotifications = Some(FALSE)]

Owners ==
    \/ \E id \in SearchIds, u \in Users :
          /\ ~IsNull(FindOwned(id, u))
          /\ updateSavedSearch(id, u, SwitchOff)
    \/ updateSavedSearch_update
    \/ \E id \in SearchIds, u \in Users :
          /\ ~IsNull(FindOwned(id, u))
          /\ deleteSavedSearch(id, u)
    \/ deleteSavedSearch_delete

\* One API task (desiredCount 1): one queue worker, two saved searches and
\* their owners.
Next == Tick \/ Scheduler(1) \/ Owners

Spec == Init /\ [][Next]_vars

\* The scheduling the queue gives one worker: a handler that has started
\* runs on to its end (every await resolves or rejects), an idle worker is
\* handed the next tick, and an insert or an enqueue that is tried again
\* and again does not fail for ever.  The clock and the owners are free.
Fairness ==
    /\ WF_vars(handleScheduledNotifications(1))
    /\ WF_vars(processNotificationsByFrequency(1))
    /\ WF_vars(sendMarketUpdate_findUnique(1))
    /\ WF_vars(createNotification(1))
    /\ SF_vars(createNotification(1) /\ notification' # notification)
    /\ WF_vars(queueNotification(1))
    /\ SF_vars(queueNotification(1) /\ queue' # queue)
    /\ WF_vars(sendMarketUpdate_update(1))

\* One worker, two saved searches, the clock, and owners who delete their
\* saved search.
NextLive ==
    \/ Tick
    \/ Scheduler(1)
    \/ \E id \in SearchIds, u \in Users :
          /\ ~IsNull(FindOwned(id, u))
          /\ deleteSavedSearch(id, u)
    \/ deleteSavedSearch_delete

SpecLive == Init /\ [][NextLive]_vars /\ Fairness

\* Two API tasks (desiredCount 2 in production): two queue workers on the
\* same queue and one saved search.
InitOneSearch ==
    /\ now = 0
    /\ \E r1 \in StoredSearches("u1") :
          savedSearch = [s \in SearchIds |-> IF s = 1 THEN Some(r1) ELSE Null]
    /\ nextSearchId = 1
    /\ notification = <<>>
    /\ queue = {}
    /\ worker = [w \in Workers |-> IdleWorker]
    /\ searchHistory = 0
    /\ req = IdleReq
    /\ store = EmptyStore

NextTwoWorkers ==
    \/ Tick
    \/ \E w \in Workers : Scheduler(w)
    \/ \E w \in Workers, s \in SearchIds : handleMarketUpdates(w, s)

SpecTwoWorkers == InitOneSearch /\ [][NextTwoWorkers]_vars

\* The requests SearchService serves, with the scheduler at rest.
Service ==
    \/ \E u \in Users, dto \in CreateSavedSearchDto : createSavedSearch(u, dto)
    \/ \E id \in SearchIds, u \in Users : getSavedSearch(id, u)
    \/ \E id \in SearchIds, u \in Users, dto \in UpdateSavedSearchDto :
          updateSavedSearch(id, u, dto)
    \/ updateSavedSearch_update
    \/ \E id \in SearchIds, u \in Users : deleteSavedSearch(id, u)
    \/ deleteSavedSearch_delete
    \/ \E f \in FilterDocs, u \in {Null} \cup {Some(x) : x \in Users} :
          searchHousingData(f, u)
    \/ \E id \in SearchIds, u \in Users : executeSavedSearch(id, u)
    \/ saveSearchHistory
    \/ searchHousingData_query
    \/ executeSavedSearch_update

\* The SavedSearch table holds one row of u1, fired a week ago.
InitService ==
    /\ now = 0
    /\ savedSearch = [s \in SearchIds |->
           IF s = 1 THEN Some(StoredSearch("u1", "WEEKLY", Some(-7)))
           ELSE Null]
    /\ nextSearchId = 1
    /\ notification = <<>>
    /\ queue = {}
    /\ worker = [w \in Workers |-> IdleWorker]
    /\ searchHistory = 0
    /\ req = IdleReq
    /\ store = EmptyStore

SpecService == InitService /\ [][Service]_vars

\* The same requests with one body per route: saved searches are created
\* with the price filter, updated to the change filter or to daily
\* notifications, and a direct search has no filter.
RequestDtos ==
    [filters : {FPrice}, emailNotifications : {Null},
     notificationFrequency : {Null}]

RequestPatches ==
    {[NoUpdate EXCEPT !.filters = Some(FChangeInverted)],
     [NoUpdate EXCEPT !.emailNotifications = Some(TRUE),
                      !.notificationFrequency = Some("DAILY")]}

Requests ==
    \/ \E u \in Users, dto \in RequestDtos : createSavedSearch(u, dto)
    \/ \E id \in SearchIds, u \in Users : getSavedSearch(id, u)
    \/ \E id \in SearchIds, u \in Users, dto \in RequestPatches :
          updateSavedSearch(id, u, dto)
    \/ updateSavedSearch_update
    \/ \E id \in SearchIds, u \in Users : deleteSavedSearch(id, u)
    \/ deleteSavedSearch_delete
    \/ \E u \in {Null} \cup {Some(x) : x \in Users} :
          searchHousingData(NoFilters, u)
    \/ \E id \in SearchIds, u \in Users : executeSavedSearch(id, u)
    \/ saveSearchHistory
    \/ searchHousingData_query
    \/ executeSavedSearch_update

SpecRequests == InitService /\ [][Requests]_vars

\* The filter engine against a loaded record store: direct searches, and
\* saved searches that are created and then executed.
Engine ==
    \/ \E f \in EngineDocs, u \in {Null, Some("u1")} : searchHousingData(f, u)
    \/ \E dto \in EngineSavedDtos : createSavedSearch("u1", dto)
    \/ \E id \in SearchIds : executeSavedSearch(id, "u1")
    \/ saveSearchHistory
    \/ searchHousingData_query
    \/ executeSavedSearch_update

InitEngine ==
    /\ now = 0
    /\ savedSearch = [s \in SearchIds |-> Null]
    /\ nextSearchId = 0
    /\ notification = <<>>
    /\ queue = {}
    /\ worker = [w \in Workers |-> IdleWorker]
    /\ searchHistory = 0
    /\ req = IdleReq
    /\ store \in Stores

SpecEngine == InitEngine /\ [][Engine]_vars

\* ------------------------------------------------------------ notifications
NotificationIds == 1..MaxNotifications

\* The row with this id is in table Notification.
Stored(n) ==
    /\ n \in 1..Len(notification)
    /\ ~notification[n].deleted

\* Mutant of findFirst: the where clause has the id only.
findFirst_ById(id, userId) ==
    IF Stored(id) THEN Some([id |-> id] @@ notification[id]) ELSE Null

\* prisma.notification.findFirst({ where: { id, userId } }).
findFirst(id, userId) ==
    IF Stored(id) /\ notification[id].userId = userId
    THEN Some([id |-> id] @@ notification[id])
    ELSE Null

\* findMany({ where, orderBy: { createdAt: 'desc' } }): the rows of ids
\* 1..n that satisfy the where clause, newest first.
RECURSIVE NewestFirst(_, _, _)
NewestFirst(n, userId, unreadOnly) ==
    IF n = 0 THEN <<>>
    ELSE (IF /\ Stored(n)
             /\ notification[n].userId = userId
             /\ unreadOnly => ~notification[n].read
          THEN <<[id |-> n] @@ notification[n]>>
          ELSE <<>>) \o NewestFirst(n - 1, userId, unreadOnly)

NotificationRequest(op, userId) ==
    [IdleReq EXCEPT !.op = op, !.userId = Some(userId)]

\* getUserNotifications(userId, unreadOnly).
getUserNotifications(userId, unreadOnly) ==
    /\ NoRequest
    /\ req' = Done([NotificationRequest("getUserNotifications", userId) EXCEPT
                       !.filters = Some([unreadOnly |-> unreadOnly]),
                       !.response = Some(NewestFirst(Len(notification), userId,
                                                     unreadOnly))], "ok")
    /\ UNCHANGED <<store, now, savedSearch, nextSearchId, notification, queue,
                   worker, searchHistory>>

\* getNotification(id, userId): NotFound unless findFirst has a row.
getNotification(id, userId) ==
    LET r == [NotificationRequest("getNotification", userId) EXCEPT !.id = id] IN
    /\ NoRequest
    /\ req' = IF IsNull(findFirst(id, userId)) THEN Done(r, "NotFound")
              ELSE Done([r EXCEPT !.response = findFirst(id, userId)], "ok")
    /\ UNCHANGED <<store, now, savedSearch, nextSearchId, notification, queue,
                   worker, searchHistory>>

\* markAsRead(id, userId): getNotification, then update where id.
markAsRead(id, userId) ==
    LET r == [NotificationRequest("markAsRead", userId) EXCEPT !.id = id] IN
    /\ NoRequest
    /\ IF IsNull(findFirst(id, userId))
       THEN /\ req' = Done(r, "NotFound")
            /\ notification' = notification
       ELSE /\ notification' = [notification EXCEPT ![id].read = TRUE]
            /\ req' = Done([r EXCEPT !.response =
                               Some([Val(findFirst(id, userId)) EXCEPT
                                        !.read = TRUE])], "ok")
    /\ UNCHANGED <<store, now, savedSearch, nextSearchId, queue, worker,
                   searchHistory>>

\* markAllAsRead(userId): updateMany where userId and read false.
markAllAsRead(userId) ==
    /\ NoRequest
    /\ notification' = [n \in 1..Len(notification) |->
           IF Stored(n) /\ notification[n].userId = userId
           THEN [notification[n] EXCEPT !.read = TRUE]
           ELSE notification[n]]
    /\ req' = Done(NotificationRequest("markAllAsRead", userId), "ok")
    /\ UNCHANGED <<store, now, savedSearch, nextSearchId, queue, worker,
                   searchHistory>>

\* deleteNotification(id, userId): getNotification, then delete where id.
deleteNotification(id, userId) ==
    LET r == [NotificationRequest("deleteNotification", userId) EXCEPT !.id = id] IN
    /\ NoRequest
    /\ IF IsNull(findFirst(id, userId))
       THEN /\ req' = Done(r, "NotFound")
            /\ notification' = notification
       ELSE /\ notification' = [notification EXCEPT ![id].deleted = TRUE]
            /\ req' = Done(r, "ok")
    /\ UNCHANGED <<store, now, savedSearch, nextSearchId, queue, worker,
                   searchHistory>>

\* getNotificationStats(userId): count where userId, count where userId
\* and read false.
getNotificationStats(userId) ==
    /\ NoRequest
    /\ req' = Done([NotificationRequest("getNotificationStats", userId) EXCEPT
                       !.response = Some(
                           [total |-> Len(NewestFirst(Len(notification),
                                                      userId, FALSE)),
                            unread |-> Len(NewestFirst(Len(notification),
                                                       userId, TRUE))])],
                   "ok")
    /\ UNCHANGED <<store, now, savedSearch, nextSearchId, notification, queue,
                   worker, searchHistory>>

\* The routes of NotificationsController.
NotificationRequests ==
    \/ \E u \in Users, unreadOnly \in BOOLEAN : getUserNotifications(u, unreadOnly)
    \/ \E id \in NotificationIds, u \in Users : getNotification(id, u)
    \/ \E id \in NotificationIds, u \in Users : markAsRead(id, u)
    \/ \E u \in Users : markAllAsRead(u)
    \/ \E id \in NotificationIds, u \in Users : deleteNotification(id, u)
    \/ \E u \in Users : getNotificationStats(u)

\* A table with market updates of both users, none read, none sent, and
\* their send-notification jobs waiting.
InitNotifications ==
    /\ now = 0
    /\ savedSearch = [s \in SearchIds |->
           IF s = 1 THEN Some(StoredSearch("u1", "WEEKLY", Some(-7)))
           ELSE Null]
    /\ nextSearchId = 1
    /\ notification = [n \in NotificationIds |->
           NewNotification(IF n % 2 = 1 THEN "u1" ELSE "u2", n)]
    /\ queue = NotificationIds
    /\ worker = [w \in Workers |-> IdleWorker]
    /\ searchHistory = 0
    /\ req = IdleReq
    /\ store = EmptyStore

SpecNotifications == InitNotifications /\ [][NotificationRequests]_vars

\* handleSendNotification up to sendEmail: a worker takes a
\* send-notification job and looks the notification up; a missing row is
\* logged and the job ends.
handleSendNotification(w) ==
    /\ worker[w].pc = "idle"
    /\ \E n \in queue :
          /\ queue' = queue \ {n}
          /\ worker' = [worker EXCEPT ![w] =
                IF ~Stored(n) THEN Completed(worker[w])
                ELSE [IdleWorker EXCEPT !.pc = "sendEmail",
                                        !.job = "send-notification",
                                        !.nid = n]]
    /\ UNCHANGED <<store, now, savedSearch, nextSearchId, notification,
                   searchHistory, req>>

\* sendEmail: the email is logged, then notification.update({ sent: true })
\* where id; the update throws when the row is gone and the job fails.
sendEmail(w) ==
    /\ worker[w].pc = "sendEmail"
    /\ IF Stored(worker[w].nid)
       THEN /\ notification' = [notification EXCEPT ![worker[w].nid].sent = TRUE]
            /\ worker' = [worker EXCEPT ![w] = Completed(worker[w])]
       ELSE /\ notification' = notification
            /\ worker' = [worker EXCEPT ![w] = Failed(worker[w])]
    /\ UNCHANGED <<store, now, savedSearch, nextSearchId, queue, searchHistory, req>>

\* One worker that handles send-market-updates jobs for the saved search of
\* u1 and the send-notification jobs they enqueue, and users who delete
\* notifications.
Sender ==
    \/ handleMarketUpdates(1, 1)
    \/ sendMarketUpdate_findUnique(1)
    \/ createNotification(1)
    \/ queueNotification(1)
    \/ sendMarketUpdate_update(1)
    \/ handleSendNotification(1)
    \/ sendEmail(1)
    \/ \E id \in NotificationIds, u \in Users : deleteNotification(id, u)

\* The queue processes every job it holds: a waiting send-notification job
\* is eventually taken, and a handler that has started runs to its end.
SenderFairness ==
    /\ SF_vars(handleSendNotification(1))
    /\ WF_vars(sendEmail(1))
    /\ WF_vars(sendMarketUpdate_findUnique(1))
    /\ WF_vars(createNotification(1))
    /\ WF_vars(queueNotification(1))
    /\ WF_vars(sendMarketUpdate_update(1))

SpecSend == InitService /\ [][Sender]_vars /\ SenderFairness

\* ------------------------------------------------------------ market trends
\* Number division: a zero divisor gives Infinity, -Infinity or NaN; any
\* other quotient is kept as the exact ratio.
Divide(a, b) ==
    IF b # 0 THEN [kind |-> "finite", num |-> a, den |-> b]
    ELSE IF a > 0 THEN [kind |-> "Infinity", num |-> 0, den |-> 0]
    ELSE IF a < 0 THEN [kind |-> "-Infinity", num |-> 0, den |-> 0]
    ELSE [kind |-> "NaN", num |-> 0, den |-> 0]

\* Number multiplication by a positive integer.
Times(q, k) ==
    IF q.kind = "finite" THEN [q EXCEPT !.num = @ * k] ELSE q

\* { absolute, percentage } of one column between the first and the last
\* row of a series.
Change(first, last) ==
    [absolute |-> last - first,
     percentage |-> Times(Divide(last - first, first), 100)]

\* calculateTrendSummary: null for fewer than two rows of either kind.
calculateTrendSummary(housingData, rentData) ==
    IF Len(housingData) < 2 \/ Len(rentData) < 2 THEN Null
    ELSE Some([homePriceChange |->
                   Change(housingData[1], housingData[Len(housingData)]),
               rentChange |->
                   Change(rentData[1], rentData[Len(rentData)])])

\* The medianHomePrice / medianRent values of the rows of a county.
TrendValues == {0, 1500, 3000}

\* The rows of one kind findMany returns for a county and a period, in
\* year and month order: their medianHomePrice or medianRent values.
Series == UNION {[1..n -> TrendValues] : n \in 0..MaxSeries}

\* getMarketTrends: NotFound for an unknown county, else the rows of the
\* period and their summary.
getMarketTrends(county, housingData, rentData) ==
    /\ NoRequest
    /\ req' = IF ~county
              THEN [IdleReq EXCEPT !.op = "getMarketTrends", !.pc = "done",
                                   !.outcome = "NotFound"]
              ELSE [IdleReq EXCEPT
                       !.op = "getMarketTrends", !.pc = "done",
                       !.outcome = "ok",
                       !.response = Some(
                           [housingData |-> housingData,
                            rentData |-> rentData,
                            summary |-> calculateTrendSummary(housingData,
                                                              rentData)])]
    /\ UNCHANGED <<store, now, savedSearch, nextSearchId, notification, queue,
                   worker, searchHistory>>

Trends ==
    \E county \in BOOLEAN, housingData \in Series, rentData \in Series :
        getMarketTrends(county, housingData, rentData)

\* The trends endpoint of the housing module on its own.
SpecTrends == InitService /\ [][Trends]_vars

\* =================================================================== claims
\* Steps of sendMarketUpdate, as seen from outside the worker.
TickJob(w) == worker[w].job = "process-scheduled-notifications"

Current(w) == Head(worker[w].batch)

\* createNotification inserted the notification row.
Creates(w) == worker[w].pc = "create" /\ worker'[w].pc = "queue"

\* The hand-off failed: the insert or the enqueue threw.
HandOffFails(w) ==
    \/ /\ worker[w].pc = "create"
       /\ worker'[w] # worker[w]
       /\ notification' = notification
    \/ /\ worker[w].pc = "queue"
       /\ worker'[w] # worker[w]
       /\ queue' = queue

\* The update of lastNotifiedAt took effect.
MarksFired(w) ==
    /\ worker[w].pc = "update"
    /\ worker'[w] # worker[w]
    /\ ~IsNull(savedSearch[Head(worker[w].batch).id])

\* An exception leaves sendMarketUpdate.
Throws(w) ==
    \/ HandOffFails(w)
    \/ /\ worker[w].pc = "update"
       /\ worker'[w] # worker[w]
       /\ IsNull(savedSearch[Head(worker[w].batch).id])

\* cadenceWindow of the due policy.
CadenceWindow(frequency) ==
    CASE frequency = "DAILY" -> DailyWindow
      [] frequency = "WEEKLY" -> WeeklyWindow
      [] frequency = "MONTHLY" -> MonthlyWindow

\* The due policy: never fired, or fired at least one cadence window ago.
Elapsed(row, t) ==
    IF IsNull(row.lastNotifiedAt) THEN TRUE
    ELSE t - Val(row.lastNotifiedAt) >= CadenceWindow(row.notificationFrequency)

\* The due set of one cadence at time t: the enabled searches of that
\* cadence whose window has elapsed.
DueSet(frequency, t) ==
    {s \in SearchIds :
        IF IsNull(savedSearch[s]) THEN FALSE
        ELSE /\ Val(savedSearch[s]).emailNotifications
             /\ Val(savedSearch[s]).notificationFrequency = frequency
             /\ Elapsed(Val(savedSearch[s]), t)}

RECURSIVE Ids(_)
Ids(batch) == IF batch = <<>> THEN {} ELSE {Head(batch).id} \cup Ids(Tail(batch))

Stale(w) ==
    IF IsNull(savedSearch[Current(w).id]) THEN TRUE
    ELSE Val(savedSearch[Current(w).id]).lastNotifiedAt # Current(w).lastNotifiedAt

\* Another worker's tick is handing off the same due cycle of the same search.
Overlaps(w) ==
    \E v \in Workers \ {w} :
       /\ TickJob(v)
       /\ worker[v].pc \in {"queue", "update"}
       /\ Current(v) = Current(w)

\* C2: double-fire prevention.  When two ticks saw the same overdue saved
\* search, only one of them creates a notification and sets lastNotifiedAt:
\* a tick hands off and marks fired only while lastNotifiedAt is still the
\* value its due check read and no other tick is handing off the same cycle.
C2_DoubleFirePrevention ==
    [][ \A w \in Workers :
           (TickJob(w) /\ (Creates(w) \/ MarksFired(w)))
              => (~Stale(w) /\ ~Overlaps(w)) ]_vars

\* C3: failure isolation.  A failed hand-off for one saved search does not
\* end the tick: the for loop goes on with the next due row, and after the
\* last row with the next frequency.
C3_FailureIsolation ==
    [][ \A w \in Workers :
           (TickJob(w) /\ HandOffFails(w))
              => worker'[w] = NextRow(worker[w], now) ]_vars

\* The for loop over the rows of one frequency ends.
LeavesStage(w, frequency) ==
    /\ TickJob(w)
    /\ worker[w].freq = frequency
    /\ worker'[w].freq # frequency
    /\ ~Throws(w)

Selects(w) ==
    /\ TickJob(w)
    /\ worker[w].pc = "findMany"
    /\ worker'[w] # worker[w]

\* C4: due policy.  A tick selects exactly the enabled saved searches with
\* lastNotifiedAt null or now - lastNotifiedAt >= cadenceWindow, on any day
\* of the week or month: each query returns that set for its frequency, and
\* the query of a frequency that has such a search is not skipped.
C4_DuePolicy ==
    [][ \A w \in Workers :
           /\ Selects(w) =>
                 Ids(IF worker'[w].pc = "findUnique" THEN worker'[w].batch
                     ELSE <<>>)
                    = DueSet(worker[w].freq, now)
           /\ (LeavesStage(w, "DAILY") /\ DueSet("WEEKLY", now) # {})
                 => worker'[w].freq = "WEEKLY"
           /\ (LeavesStage(w, "DAILY") /\ DueSet("MONTHLY", now) # {})
                 => worker'[w].freq \in {"WEEKLY", "MONTHLY"}
           /\ (LeavesStage(w, "WEEKLY") /\ DueSet("MONTHLY", now) # {})
                 => worker'[w].freq = "MONTHLY" ]_vars

\* C5: exactly once per due cycle.  A market-update notification is created
\* for a saved search only when it never fired or its last firing is at
\* least one cadence window old.
C5_OncePerCycle ==
    [][ \A w \in Workers :
           Creates(w) =>
              /\ ~IsNull(savedSearch[Current(w).id])
              /\ Elapsed(Val(savedSearch[Current(w).id]), now) ]_vars

\* C6: a tick creates a notification and writes lastNotifiedAt only for a
\* saved search whose notifications are enabled.
C6_DisabledIsIdle ==
    [][ \A w \in Workers :
           (TickJob(w) /\ (Creates(w) \/ MarksFired(w)))
              => /\ ~IsNull(savedSearch[Current(w).id])
                 /\ Val(savedSearch[Current(w).id]).emailNotifications ]_vars

\* A SearchService step: the request being served changes.
ServiceStep == req' # req

\* A call enters SearchService.
Enters(ops) == NoRequest /\ req' # req /\ req'.op \in ops

\* C7: lastNotifiedAt is written only by sendMarketUpdate.  No step of
\* createSavedSearch, getSavedSearch, updateSavedSearch, deleteSavedSearch,
\* executeSavedSearch or searchHousingData changes the lastNotifiedAt of a
\* row that exists before and after it, and a row they insert has
\* lastNotifiedAt null.
C7_LastFiredFrame ==
    [][ ServiceStep =>
           \A s \in SearchIds :
              IF IsNull(savedSearch'[s]) THEN TRUE
              ELSE IF IsNull(savedSearch[s])
                   THEN IsNull(Val(savedSearch'[s]).lastNotifiedAt)
                   ELSE Val(savedSearch'[s]).lastNotifiedAt
                           = Val(savedSearch[s]).lastNotifiedAt ]_vars

\* C7 witness: saved search 1, fired on 23 September, has had its filters
\* replaced by an update and has then been executed by its owner, which
\* set updatedAt; a second saved search has been created.
C7_Witness ==
    /\ req.op = "executeSavedSearch"
    /\ req.id = 1
    /\ req.pc = "done"
    /\ req.outcome = "ok"
    /\ ~IsNull(savedSearch[1])
    /\ Val(savedSearch[1]).filters # FPrice
    /\ Val(savedSearch[1]).updatedAt = now
    /\ Val(savedSearch[1]).lastNotifiedAt = Some(-7)
    /\ ~IsNull(savedSearch[2])

\* The id is not a saved search of this user: there is no such row, or the
\* row belongs to someone else.
NotTheirs(id, userId) ==
    IF IsNull(savedSearch[id]) THEN TRUE
    ELSE Some(Val(savedSearch[id]).userId) # userId

OwnedOps ==
    {"getSavedSearch", "updateSavedSearch", "deleteSavedSearch",
     "executeSavedSearch"}

\* C8: exclusive ownership.  A get, update, delete or execute call with an
\* id that is not a saved search of the caller ends at once with NotFound,
\* whether the row is missing or belongs to another user, and changes no
\* table; and whenever a request changes or deletes an existing row, the
\* row belongs to the caller.
C8_Ownership ==
    [][ /\ (Enters(OwnedOps) /\ NotTheirs(req'.id, req'.userId))
              => /\ req'.pc = "done"
                 /\ req'.outcome = "NotFound"
                 /\ savedSearch' = savedSearch
                 /\ searchHistory' = searchHistory
        /\ \A s \in SearchIds :
              (ServiceStep /\ ~IsNull(savedSearch[s])
                  /\ savedSearch'[s] # savedSearch[s])
                 => req'.userId = Some(Val(savedSearch[s]).userId) ]_vars

\* C8 witness: u2 asked to delete saved search 1 of u1 and got NotFound;
\* the row is still there.
C8_Witness ==
    /\ req.op = "deleteSavedSearch"
    /\ req.id = 1
    /\ req.userId = Some("u2")
    /\ req.pc = "done"
    /\ req.outcome = "NotFound"
    /\ ~IsNull(savedSearch[1])
    /\ Val(savedSearch[1]).userId = "u1"

\* A range with both bounds present and min > max.
Inverted(lo, hi) ==
    IF IsNull(lo) \/ IsNull(hi) THEN FALSE ELSE Val(lo) > Val(hi)

PriceInverted(f) == Inverted(f.minPrice, f.maxPrice)

AnyInverted(f) ==
    \/ Inverted(f.minPrice, f.maxPrice)
    \/ Inverted(f.minRent, f.maxRent)
    \/ Inverted(f.priceChangeMin, f.priceChangeMax)

\* C9: validation precedes store access.  A direct search or an execution
\* of a saved search whose filters have minPrice > maxPrice never gets to
\* write the search history or to run the queries, and does not succeed.
C9_ValidateBeforeStore ==
    (/\ req.op \in {"searchHousingData", "executeSavedSearch"}
     /\ ~IsNull(req.filters)
     /\ PriceInverted(Val(req.filters)))
       => /\ req.pc \notin {"query", "touch"}
          /\ req.outcome # "ok"

\* C10: createSavedSearch and updateSavedSearch reject every filter
\* document with an inverted price, rent or change range: such a call ends
\* with BadRequest (or NotFound for an update of a row that is not the
\* caller's), and no stored saved search holds an inverted range.
C10_RejectInverted ==
    /\ (/\ req.op \in {"createSavedSearch", "updateSavedSearch"}
        /\ ~IsNull(req.filters)
        /\ AnyInverted(Val(req.filters)))
          => /\ req.pc = "done"
             /\ req.outcome \in {"BadRequest", "NotFound"}
    /\ \A s \in SearchIds :
          IF IsNull(savedSearch[s]) THEN TRUE
          ELSE ~AnyInverted(Val(savedSearch[s]).filters)

\* ------------------------------------------------------ filter engine claims
\* A search has produced its result: the request holds the response.
Answered == ~IsNull(req.response)

\* The records of one kind that match the filter document: the region
\* restriction and the ranges on that kind's columns, before pagination.
Matching(st, f, kind) ==
    IF ~Wants(f, kind) THEN {}
    ELSE CASE kind = "housing" -> {r \in st.housingData : housingWhere(f, r)}
           [] kind = "rent" -> {r \in st.rentData : rentWhere(f, r)}
           [] kind = "trends" -> {r \in st.marketTrend : trendsWhere(f, r)}

AnyOrder(S) == CHOOSE o \in Orders(S) : TRUE

SameQuotient(a, b) == a[1] * b[2] = b[1] * a[2]

\* min, max and average of one column are those of the values in rows.
SummaryOf(lowest, highest, average, rows, column) ==
    LET values == Column(AnyOrder(rows), column) IN
    /\ lowest = Minimum(values)
    /\ highest = Maximum(values)
    /\ SameQuotient(average, Avg(values))

\* C11: the aggregate summary of a search is computed over the entire
\* matching set, before pagination: the minimum, maximum and average home
\* price and rent of every response are those of all records that match
\* the filter document, whatever limit and offset are.
C11_AggregatesOverFullSet ==
    Answered =>
       LET f == Val(req.filters)
           a == Val(req.response).aggregates
       IN /\ SummaryOf(a.minHomePrice, a.maxHomePrice, a.avgHomePrice,
                       Matching(store, f, "housing"), "medianHomePrice")
          /\ SummaryOf(a.minRent, a.maxRent, a.avgRent,
                       Matching(store, f, "rent"), "medianRent")

Kinds == {"housing", "rent", "trends"}

\* The order the filter document asks for: the sort key in the sort
\* direction, records equal in it by identifier ascending.
Precedes(a, b, orderBy) ==
    IF a[orderBy.column] = b[orderBy.column] THEN a.id < b.id
    ELSE InOrder(a, b, orderBy)

\* The matching set fully sorted in that order.
FullySorted(rows, orderBy) ==
    CHOOSE o \in Orders(rows) :
       \A i \in 1..Len(o) - 1 : Precedes(o[i], o[i + 1], orderBy)

\* The step in which searchHousingData runs its queries and gets a result.
Executes == req.pc = "query" /\ ~IsNull(req'.response)

\* The filter document of the page after the one f asks for.
NextPage(f) ==
    [f EXCEPT !.offset = Some(OrDefault(f.offset, DefaultOffset)
                                 + OrDefault(f.limit, DefaultLimit))]

\* C12: pagination law.  When a search for the first page (offset 0, size
\* n) has returned, then for every result the code can give for the next
\* page (offset n, size n) against the same data, and for each kind of
\* record, the identifiers of the two pages are disjoint and together are
\* the identifiers of the first 2n records of the fully sorted matching
\* set.
C12_PaginationLaw ==
    [][ (Executes /\ OrDefault(Val(req.filters).offset, DefaultOffset) = 0)
           => LET f == Val(req.filters)
                  n == OrDefault(f.limit, DefaultLimit)
                  first == Val(req'.response).data
              IN \A second \in SearchResults(store, NextPage(f)) :
                    \A kind \in Kinds :
                       /\ Ids(first[kind]) \cap Ids(second.data[kind]) = {}
                       /\ Ids(first[kind]) \cup Ids(second.data[kind])
                             = Ids(Page(FullySorted(Matching(store, f, kind),
                                          buildOrderBy(f.sortBy, f.sortOrder)),
                                        2 * n, 0)) ]_vars

\* C13: ordering.  Every sequence of records in a response (housing, rent
\* and trends) is in the order the filter document asks for: by the sort
\* key in the sort direction (date, desc when unset), records with equal
\* sort-key values by identifier ascending.
C13_Ordering ==
    Answered =>
       LET f == Val(req.filters)
           data == Val(req.response).data
       IN \A kind \in Kinds :
             \A i \in 1..Len(data[kind]) - 1 :
                Precedes(data[kind][i], data[kind][i + 1],
                         buildOrderBy(f.sortBy, f.sortOrder))

\* The filter document passes the rules of SearchFiltersDto and of
\* validateSearchFilters.
ValidDoc(f) == SearchFiltersDto(f) /\ validateSearchFilters(Some(f)) = "ok"

\* C14: determinism of Execute.  When a search with a valid filter
\* document returns, every result a second execution against the same
\* record store can give has the same records in the same order and the
\* same aggregates.
C14_Determinism ==
    [][ (Executes /\ ValidDoc(Val(req.filters)))
           => \A again \in SearchResults(store', Val(req.filters)) :
                 /\ again.data = Val(req'.response).data
                 /\ again.aggregates = Val(req'.response).aggregates ]_vars

\* A step of a direct search or of the execution of a saved search.
ExecuteStep ==
    ServiceStep /\ req'.op \in {"searchHousingData", "executeSavedSearch"}

\* C15 as claimed: Execute is a pure read.  No step of a direct search or
\* of executeSavedSearch creates, updates or deletes a record in any
\* store, the saved search it runs included.
C15_PureRead_Claimed ==
    [][ ExecuteStep =>
           /\ store' = store
           /\ savedSearch' = savedSearch
           /\ searchHistory' = searchHistory
           /\ notification' = notification ]_vars

\* C15 as amended: Execute is a pure read of the record store.  No step of
\* a direct search or of executeSavedSearch changes the housing, rent and
\* trend records or a notification; a step adds at most one row to the
\* search history; and the only change to a saved search is that
\* executeSavedSearch sets updatedAt of the saved search it ran.
C15_PureRead ==
    [][ ExecuteStep =>
           /\ store' = store
           /\ notification' = notification
           /\ searchHistory' \in {searchHistory, searchHistory + 1}
           /\ \A s \in SearchIds :
                 \/ savedSearch'[s] = savedSearch[s]
                 \/ /\ req'.op = "executeSavedSearch"
                    /\ s = req'.id
                    /\ ~IsNull(savedSearch[s])
                    /\ savedSearch'[s] =
                          Some([Val(savedSearch[s]) EXCEPT !.updatedAt = now]) ]_vars

\* C15 witness: u1 has executed saved search 1: the search history has a
\* row, the saved search has its filters and lastNotifiedAt as before and
\* updatedAt is the time of the execution.
C15_Witness ==
    /\ req.op = "executeSavedSearch"
    /\ req.id = 1
    /\ req.pc = "done"
    /\ req.outcome = "ok"
    /\ Answered
    /\ searchHistory = 1
    /\ savedSearch[1] =
          Some([StoredSearch("u1", "WEEKLY", Some(-7)) EXCEPT !.updatedAt = now])

\* No record of any kind matches the filter document.
NoMatch(st, f) == \A kind \in Kinds : Matching(st, f, kind) = {}

ZeroAggregates ==
    [avgHomePrice |-> <<0, 1>>, avgRent |-> <<0, 1>>,
     minHomePrice |-> 0, maxHomePrice |-> 0, minRent |-> 0, maxRent |-> 0,
     totalCounties |-> 0]

Within(v, lo, hi) ==
    /\ IF IsNull(lo) THEN TRUE ELSE v >= Val(lo)
    /\ IF IsNull(hi) THEN TRUE ELSE v <= Val(hi)

\* C17: a bound that is present is applied, the value 0 included.  Every
\* housing record of a response has its price within the price bounds and
\* its year-over-year change within the change bounds that the filter
\* document holds, and every rent record its rent within the rent bounds
\* it holds.
C17_ZeroIsABound ==
    Answered =>
       LET f == Val(req.filters)
           data == Val(req.response).data
       IN /\ \A r \in Range(data.housing) :
                /\ Within(r.medianHomePrice, f.minPrice, f.maxPrice)
                /\ Within(r.priceChangeYoY, f.priceChangeMin, f.priceChangeMax)
          /\ \A r \in Range(data.rent) :
                Within(r.medianRent, f.minRent, f.maxRent)

\* An execution of the filter engine is under way or has returned.
Executing ==
    /\ req.op \in {"searchHousingData", "executeSavedSearch"}
    /\ req.pc \in {"history", "query", "touch"} \/ Answered

\* C18: every execution of the filter engine, of a direct search or of a
\* stored saved search, runs with a page size between 1 and 100 and a page
\* offset of at least 0 (20 and 0 when unset); a filter document outside
\* these bounds does not get to run.
C18_PageBounds ==
    Executing =>
       /\ OrDefault(Val(req.filters).limit, DefaultLimit) \in 1..100
       /\ OrDefault(Val(req.filters).offset, DefaultOffset) >= 0

\* String.prototype.toUpperCase on a state code.
toUpperCase(s) == IF s = "ca" THEN "CA" ELSE s

\* The region set upper-cased and de-duplicated.
Normalized(f) ==
    [f EXCEPT !.states = AnyOrder({toUpperCase(s) : s \in Range(f.states)})]

\* C19: region normalization.  The result of executing a filter document
\* is a result of executing it with its region set upper-cased and
\* de-duplicated.
C19_RegionNormalization ==
    [][ Executes =>
           \E normal \in SearchResults(store, Normalized(Val(req.filters))) :
              /\ normal.data = Val(req'.response).data
              /\ normal.aggregates = Val(req'.response).aggregates ]_vars

\* C20: record kinds are never mixed.  Each of the housing, rent and
\* trends sequences of a response holds only records of its own kind, and
\* when the filter document names a dataType the sequences of the other
\* kinds are empty.
C20_KindsNotMixed ==
    Answered =>
       LET f == Val(req.filters)
           data == Val(req.response).data
       IN \A kind \in Kinds :
             /\ \A r \in Range(data[kind]) : r.kind = kind
             /\ (~IsNull(f.dataType) /\ Val(f.dataType) # kind)
                   => data[kind] = <<>>

\* C20 witness: a direct search with dataType trends against loaded
\* tables has returned the trend records and nothing else.
C20_Witness ==
    /\ req.op = "searchHousingData"
    /\ req.pc = "done"
    /\ req.filters = Some(FTrends)
    /\ Answered
    /\ store = Store(MaxHousing, MaxRent, MaxTrends)
    /\ Len(Val(req.response).data.trends) = MaxTrends
    /\ Val(req.response).data.housing = <<>>
    /\ Val(req.response).data.rent = <<>>

\* The frequencies a tick still has to query, counting the current one.
StagesLeft(w) ==
    CASE w.freq = "DAILY" -> 3
      [] w.freq = "WEEKLY" -> 2
      [] w.freq = "MONTHLY" -> 1
      [] OTHER -> 0

\* The awaits sendMarketUpdate still has to pass for the current row.
AwaitsLeft(w) ==
    CASE w.pc = "findUnique" -> 4
      [] w.pc = "create" -> 3
      [] w.pc = "queue" -> 2
      [] w.pc = "update" -> 1
      [] OTHER -> 0

\* What is left of a tick: the frequencies, whether the findMany of the
\* current one is still to come, the rows of its for loop, the awaits of
\* the current row.
Remaining(w) ==
    <<StagesLeft(w), IF w.pc = "findMany" THEN 1 ELSE 0, Len(w.batch),
      AwaitsLeft(w)>>

\* Lexicographic order on tuples of the same length.
RECURSIVE LexLess(_, _)
LexLess(a, b) ==
    IF a = <<>> THEN FALSE
    ELSE \/ Head(a) < Head(b)
         \/ Head(a) = Head(b) /\ LexLess(Tail(a), Tail(b))

\* No saved search occurs twice in the rows of a for loop.
RECURSIVE NoRepeat(_)
NoRepeat(batch) ==
    IF batch = <<>> THEN TRUE
    ELSE Head(batch).id \notin Ids(Tail(batch)) /\ NoRepeat(Tail(batch))

\* C21: a scheduler tick terminates.  Every step of a worker that runs a
\* tick strictly decreases what is left of the tick (frequencies to query,
\* the pending findMany, rows of the for loop, awaits of the current row),
\* so the tick ends after a bounded number of steps; the rows of a for loop
\* are those the one findMany of that frequency returned, each saved search
\* at most once, the loop only ever drops its first row, and no frequency is
\* queried twice in one tick.
C21_TickTerminates ==
    [][\A w \in Workers :
          (TickJob(w) /\ worker'[w] # worker[w]) =>
             /\ LexLess(Remaining(worker'[w]), Remaining(worker[w]))
             /\ NoRepeat(worker'[w].batch)
             /\ Len(worker'[w].batch) <= Cardinality(SearchIds)
             /\ worker[w].pc # "findMany" =>
                   \/ worker'[w].batch = worker[w].batch
                   \/ worker'[w].batch = Tail(worker[w].batch)
                   \/ worker'[w].batch = <<>>
             /\ worker'[w].pc = "findMany" =>
                   StagesLeft(worker'[w]) < StagesLeft(worker[w])]_vars

\* A tick has handled the first of the two daily searches its findMany
\* returned and is on the second.
C21_Witness ==
    /\ TickJob(1)
    /\ worker[1].freq = "DAILY"
    /\ worker[1].pc = "findUnique"
    /\ Len(worker[1].batch) = 1
    /\ Len(notification) = 1
    /\ queue = {1}
    /\ \E s \in SearchIds :
          /\ s # Current(1).id
          /\ ~IsNull(savedSearch[s])
          /\ Val(savedSearch[s]).lastNotifiedAt = Some(now)

\* The summary of an answered trends request, if it has one.
Summarized ==
    /\ req.op = "getMarketTrends"
    /\ req.outcome = "ok"
    /\ ~IsNull(Val(req.response).summary)

\* A change against a prior value: the absolute change is reported, and the
\* percentage is the undefined sentinel exactly when the prior value is zero.
Reported(change, first, last) ==
    /\ change.absolute = last - first
    /\ first = 0 => change.percentage.kind = "undefined"
    /\ first # 0 => change.percentage =
                       [kind |-> "finite", num |-> (last - first) * 100,
                        den |-> first]

\* C22: a change summary computed against a prior value of zero reports the
\* percentage change as an undefined sentinel, neither Infinity, -Infinity
\* or NaN nor 0, and still reports the absolute change.
C22_ZeroBaseline ==
    Summarized =>
        LET r == Val(req.response)
            h == r.housingData
            t == r.rentData IN
        /\ Reported(Val(r.summary).homePriceChange, h[1], h[Len(h)])
        /\ Reported(Val(r.summary).rentChange, t[1], t[Len(t)])

\* C23: calendar gating.  Every invocation of the tick starts with the
\* DAILY query; when the DAILY pass ends without an exception, the WEEKLY
\* query follows exactly when that day is a Monday and the MONTHLY query
\* exactly when it is the 1st of the month (after the WEEKLY pass, if
\* there was one); so a tick works on WEEKLY searches only on a Monday and
\* on MONTHLY searches only on the 1st, and on any other day an overdue
\* weekly or monthly search is left alone.
C23_CalendarGating ==
    [][\A w \in Workers :
          /\ (worker[w].pc = "idle" /\ worker'[w].pc # "idle"
                /\ worker'[w].job = "process-scheduled-notifications")
                => (worker'[w].freq = "DAILY" /\ worker'[w].pc = "findMany")
          /\ LeavesStage(w, "DAILY") =>
                /\ worker'[w].freq = "WEEKLY" <=> getDay(now) = Monday
                /\ worker'[w].freq = "MONTHLY" <=>
                      (getDay(now) # Monday /\ getDate(now) = FirstOfMonth)
                /\ worker'[w].freq # "none" => worker'[w].today = Some(now)
          /\ LeavesStage(w, "WEEKLY") =>
                /\ worker'[w].freq = "MONTHLY"
                      <=> getDate(Val(worker[w].today)) = FirstOfMonth
                /\ worker'[w].freq = "MONTHLY"
                      => worker'[w].today = worker[w].today
          /\ (TickJob(w) /\ worker[w].freq = "WEEKLY")
                => getDay(Val(worker[w].today)) = Monday
          /\ (TickJob(w) /\ worker[w].freq = "MONTHLY")
                => getDate(Val(worker[w].today)) = FirstOfMonth]_vars

\* On Tuesday 1 October a tick has finished its DAILY pass and gone straight
\* to the MONTHLY query, although the weekly search last fired on
\* 16 September is enabled and overdue.
C23_Witness ==
    /\ now = 1
    /\ TickJob(1)
    /\ worker[1].freq = "MONTHLY"
    /\ worker[1].pc = "findMany"
    /\ worker[1].today = Some(1)
    /\ Len(notification) = 1
    /\ 1 \in DueSet("WEEKLY", now)
    /\ Val(savedSearch[1]).lastNotifiedAt = Some(-14)

\* C24: a failure to write the search-history record never fails the
\* search.  Whether or not the insert added a row, the step that writes the
\* history hands the same request, with the same filters, on to the
\* queries and leaves the record store alone; and the queries answer with
\* one of the results the store gives for these filters, so results,
\* aggregates and total are what they are when the write succeeds.
C24_HistoryFailureIsHarmless ==
    [][/\ (req.pc = "history" /\ req' # req) =>
             /\ req' = [req EXCEPT !.pc = "query"]
             /\ store' = store
       /\ (req.pc = "query" /\ req' # req) =>
             /\ req'.outcome # "InternalServerError"
             /\ ~IsNull(req'.response)
             /\ IF IsNull(req'.response) THEN FALSE
                ELSE Val(req'.response)
                        \in SearchResults(store, Val(req.filters))]_vars

\* A search of a signed-in user was answered with records although no
\* search-history row was ever written.
C24_Witness ==
    /\ req.op = "searchHousingData"
    /\ req.pc = "done"
    /\ req.outcome = "ok"
    /\ ~IsNull(req.userId)
    /\ searchHistory = 0
    /\ IF IsNull(req.response) THEN FALSE
       ELSE /\ Val(req.response).data.housing # <<>>
            /\ Val(req.response).pagination.total > 0

\* The tick of day t selects saved search s: it is enabled, its
\* lastNotifiedAt is null or before the threshold of its frequency, and the
\* day passes the calendar gate of its frequency.
DueToday(s, t) ==
    IF IsNull(savedSearch[s]) THEN FALSE
    ELSE LET row == Val(savedSearch[s]) IN
         /\ DueWhere(row, row.notificationFrequency, t)
         /\ row.notificationFrequency = "WEEKLY" => getDay(t) = Monday
         /\ row.notificationFrequency = "MONTHLY" => getDate(t) = FirstOfMonth

\* Saved search s was marked as notified on day d or later.
NotifiedSince(s, d) ==
    IF IsNull(savedSearch[s]) THEN FALSE
    ELSE IF IsNull(Val(savedSearch[s]).lastNotifiedAt) THEN FALSE
    ELSE Val(Val(savedSearch[s]).lastNotifiedAt) >= d

\* Saved search s was deleted or its notifications were switched off.
Withdrawn(s) ==
    IF IsNull(savedSearch[s]) THEN TRUE
    ELSE ~Val(savedSearch[s]).emailNotifications

C26_AllOrNothing ==
    \A n \in 1..Len(notification) :
        \/ n \in queue
        \/ \E w \in Workers : worker[w].pc = "queue" /\ worker[w].nid = n

\* C27: the pagination total of a search is the number of records that
\* match all predicates of the filter document, over the record kinds the
\* document selects, and so is never smaller than the number of records
\* returned.
C27_TotalCountsMatches ==
    (Answered /\ req.op \in {"searchHousingData", "executeSavedSearch"}) =>
        LET r == Val(req.response)
            f == Val(req.filters) IN
        /\ r.pagination.total =
              Cardinality(Matching(store, f, "housing"))
              + Cardinality(Matching(store, f, "rent"))
              + Cardinality(Matching(store, f, "trends"))
        /\ r.pagination.total >=
              Len(r.data.housing) + Len(r.data.rent) + Len(r.data.trends)

\* The operations on a user's notifications.
NotificationOps ==
    {"getUserNotifications", "getNotification", "markAsRead", "markAllAsRead",
     "deleteNotification", "getNotificationStats"}

\* The notifications of user u in the table, and those of them not read.
NotificationsOf(u) ==
    {n \in 1..Len(notification) : Stored(n) /\ notification[n].userId = u}

UnreadOf(u) == {n \in NotificationsOf(u) : ~notification[n].read}

\* C28: notification isolation between users.  A notification operation of
\* user u leaves every notification of another user as it was; the list it
\* returns is exactly u's notifications (the unread ones when asked so),
\* the notification it returns is u's, the statistics count u's
\* notifications only; and getNotification, markAsRead and
\* deleteNotification on a notification that is not u's answer NotFound and
\* change nothing.
C28_NotificationIsolation ==
    [][(req' # req /\ req'.op \in NotificationOps) =>
          LET u == Val(req'.userId)
              id == req'.id IN
          /\ Len(notification') = Len(notification)
          /\ \A n \in 1..Len(notification) :
                notification[n].userId # u => notification'[n] = notification[n]
          /\ req'.op = "getUserNotifications" =>
                LET rows == Val(req'.response) IN
                {rows[i].id : i \in 1..Len(rows)} =
                    IF Val(req'.filters).unreadOnly THEN UnreadOf(u)
                    ELSE NotificationsOf(u)
          /\ (req'.op = "getNotification" /\ req'.outcome = "ok") =>
                /\ Val(req'.response).userId = u
                /\ Val(req'.response).id = id
          /\ req'.op = "getNotificationStats" =>
                /\ Val(req'.response).total = Cardinality(NotificationsOf(u))
                /\ Val(req'.response).unread = Cardinality(UnreadOf(u))
          /\ (/\ req'.op \in {"getNotification", "markAsRead",
                              "deleteNotification"}
              /\ id \notin NotificationsOf(u)) =>
                /\ req'.outcome = "NotFound"
                /\ notification' = notification]_vars

\* u2 has marked its own notification as read, and its markAsRead on the
\* notification of u1 was answered NotFound and left it unread.
C28_Witness ==
    /\ req.op = "markAsRead"
    /\ req.userId = Some("u2")
    /\ req.id = 1
    /\ req.outcome = "NotFound"
    /\ Stored(1)
    /\ notification[1].userId = "u1"
    /\ ~notification[1].read
    /\ notification[2].read

\* A worker is in sendEmail for notification n.
Sending(w, n) ==
    /\ worker[w].job = "send-notification"
    /\ worker[w].pc = "sendEmail"
    /\ worker[w].nid = n

\* C29: send status of notifications.  The sent flag of a notification
\* becomes true only in the sendEmail step of its send-notification job;
\* with a queue that processes every job, every notification that
\* createNotification has inserted is eventually marked sent or deleted;
\* and a job whose notification has been deleted ends without marking it,
\* whenever the delete comes.
C29_SendStatus ==
    /\ [][\A n \in 1..Len(notification') :
             (notification'[n].sent
                 /\ (IF n > Len(notification) THEN TRUE
                     ELSE ~notification[n].sent))
                => /\ n <= Len(notification)
                   /\ \E w \in Workers :
                         Sending(w, n) /\ worker'[w].pc = "idle"]_vars
    /\ \A n \in NotificationIds :
          (n <= Len(notification))
             ~> (IF n > Len(notification) THEN FALSE
                 ELSE notification[n].sent \/ notification[n].deleted)
    /\ [][\A w \in Workers, n \in 1..Len(notification) :
             (Sending(w, n) /\ notification[n].deleted
                 /\ worker'[w] # worker[w])
                => /\ worker'[w].pc = "idle"
                   /\ notification' = notification]_vars

====
